---- MODULE Spec2Model ----
(***************************************************************************)
(* Sales export service (main.py): two GET handlers over a MongoDB sales   *)
(* collection, served by one uvicorn event loop.                           *)
(*                                                                         *)
(* Text is modelled as sequences of one-character strings, so that         *)
(* lower(), the $regex suffix match, csv writing and JSON string encoding  *)
(* are computed character by character.                                    *)
(***************************************************************************)
EXTENDS Integers, Sequences, FiniteSets, TLC

VARIABLES
    store,     \* the documents of the sales collection, in natural order
    storeUp,   \* whether the MongoDB server answers (FALSE: sales.find raises)
    reqs,      \* per connection: the request, its progress and its response
    loop,      \* the request whose handler holds the event loop, or 0
    queryLog   \* the queries issued so far: [req, ep, month, year]

vars == <<store, storeUp, reqs, loop, queryLog>>

----------------------------------------------------------------------------
(* Bounds *)

\* request slots (concurrent connections) of a behaviour
NReq == 2

\* documents in the sales collection
MaxRecords == 2

----------------------------------------------------------------------------
(* Characters and strings *)

Range(s) == {s[i] : i \in DOMAIN s}

UpperLetters == <<"A", "B", "C", "D", "E", "F", "G", "H", "I", "J", "K", "L", "M", "N", "O", "P", "Q", "R", "S", "T", "U", "V", "W", "X", "Y", "Z">>
LowerLetters == <<"a", "b", "c", "d", "e", "f", "g", "h", "i", "j", "k", "l", "m", "n", "o", "p", "q", "r", "s", "t", "u", "v", "w", "x", "y", "z">>
DigitChars == <<"0", "1", "2", "3", "4", "5", "6", "7", "8", "9">>

\* str.lower() on one character (ASCII letters; other characters unchanged)
LowerChar(c) ==
    IF \E i \in DOMAIN UpperLetters : UpperLetters[i] = c
    THEN LowerLetters[CHOOSE i \in DOMAIN UpperLetters : UpperLetters[i] = c]
    ELSE c

\* str.lower()
lower(s) == [i \in 1..Len(s) |-> LowerChar(s[i])]

RECURSIVE Flatten(_)
Flatten(ss) ==
    IF Len(ss) = 0 THEN <<>>
    ELSE IF Len(ss) = 1 THEN ss[1]
    ELSE LET h == Len(ss) \div 2
         IN  Flatten(SubSeq(ss, 1, h)) \o Flatten(SubSeq(ss, h + 1, Len(ss)))

\* the list `months` of get_sales_for_period
months ==
    << <<"j", "a", "n", "u", "a", "r", "y">>,
       <<"f", "e", "b", "r", "u", "a", "r", "y">>,
       <<"m", "a", "r", "c", "h">>,
       <<"a", "p", "r", "i", "l">>,
       <<"m", "a", "y">>,
       <<"j", "u", "n", "e">>,
       <<"j", "u", "l", "y">>,
       <<"a", "u", "g", "u", "s", "t">>,
       <<"s", "e", "p", "t", "e", "m", "b", "e", "r">>,
       <<"o", "c", "t", "o", "b", "e", "r">>,
       <<"n", "o", "v", "e", "m", "b", "e", "r">>,
       <<"d", "e", "c", "e", "m", "b", "e", "r">> >>

\* the list `years` of get_sales_for_period
years == << <<"2", "0", "2", "2">>, <<"2", "0", "2", "3">> >>

----------------------------------------------------------------------------
(* The Sale shape and the documents of the collection *)

\* fields of a stored document, in document order
FieldOrder == <<"_id", "key", "sale", "rebate", "net">>

\* the fields class Sale requires (Field(...)): every one of the modelled fields
SaleFields == {"_id", "key", "sale", "rebate", "net"}

N_id == <<"_", "i", "d">>
N_key == <<"k", "e", "y">>
N_sale == <<"s", "a", "l", "e">>
N_rebate == <<"r", "e", "b", "a", "t", "e">>
N_net == <<"n", "e", "t">>

ColName(f) ==
    CASE f = "_id" -> N_id
      [] f = "key" -> N_key
      [] f = "sale" -> N_sale
      [] f = "rebate" -> N_rebate
      [] f = "net" -> N_net

\* an Optional[float] field of a stored document: missing, null or a number
Absent == [k |-> "absent", n |-> 0]
Null == [k |-> "null", n |-> 0]
Num(n) == [k |-> "num", n |-> n]

\* cells of a DataFrame
NumCell(n) == [k |-> "num", n |-> n, s |-> <<>>]
IdCell(n) == [k |-> "id", n |-> n, s |-> <<>>]
StrCell(s) == [k |-> "str", n |-> 0, s |-> s]
NoneCell == [k |-> "none", n |-> 0, s |-> <<>>]
NaNCell == [k |-> "nan", n |-> 0, s |-> <<>>]

Present(d, f) == IF f \in {"rebate", "net"} THEN d[f].k # "absent" ELSE TRUE

DocFields(d) == SelectSeq(FieldOrder, LAMBDA f : Present(d, f))

----------------------------------------------------------------------------
(* pd.DataFrame(list(cursor)) *)

\* column labels: the union of the documents' fields, in order of first appearance
RECURSIVE ColumnsOf(_)
ColumnsOf(docs) ==
    IF docs = <<>> THEN <<>>
    ELSE LET before == ColumnsOf(SubSeq(docs, 1, Len(docs) - 1))
             d == docs[Len(docs)]
         IN  before \o SelectSeq(DocFields(d), LAMBDA f : f \notin Range(before))

\* a column keeps None only when every document holds null there; a missing
\* field becomes NaN and forces the remaining nulls of the column to NaN
AllNull(docs, f) == \A j \in DOMAIN docs : docs[j][f].k = "null"

CellOf(docs, i, f) ==
    CASE f = "_id" -> IdCell(docs[i]["_id"])
      [] f = "key" -> StrCell(docs[i]["key"])
      [] f = "sale" -> NumCell(docs[i]["sale"])
      [] OTHER ->
           IF docs[i][f].k = "num" THEN NumCell(docs[i][f].n)
           ELSE IF AllNull(docs, f) THEN NoneCell ELSE NaNCell

DataFrame(docs) ==
    LET cols == ColumnsOf(docs)
    IN  [columns |-> cols,
         rows |-> [i \in 1..Len(docs) |-> [f \in Range(cols) |-> CellOf(docs, i, f)]]]

----------------------------------------------------------------------------
(* df["net"] = df.apply(lambda x: x["sale"] if x["rebate"] == 0 else x["rebate"], axis=1) *)

\* the lambda: None == 0 and NaN == 0 are both False
NetOf(row) ==
    IF row["rebate"].k = "num" /\ row["rebate"].n = 0 THEN row["sale"] ELSE row["rebate"]

\* the statement raises: on a frame without rows apply returns an empty frame,
\* which cannot be set as a column (ValueError); without a rebate column the
\* lambda raises KeyError
NetRaises(df) == Len(df.rows) = 0 \/ "rebate" \notin Range(df.columns)

\* the Series apply builds from the results: None survives only if all are None
NetSeries(df) ==
    LET raw == [i \in 1..Len(df.rows) |-> NetOf(df.rows[i])]
        allNone == \A i \in DOMAIN raw : raw[i].k = "none"
    IN  [i \in DOMAIN raw |-> IF raw[i].k = "none" /\ ~allNone THEN NaNCell ELSE raw[i]]

\* the frame after the assignment: net replaced in place, or appended
WithNet(df) ==
    LET cols == IF "net" \in Range(df.columns) THEN df.columns ELSE Append(df.columns, "net")
        net == NetSeries(df)
    IN  [columns |-> cols,
         rows |-> [i \in 1..Len(df.rows) |->
                     [f \in Range(cols) |-> IF f = "net" THEN net[i] ELSE df.rows[i][f]]]]

----------------------------------------------------------------------------
(* df.to_csv(stream, index=False, sep=...) *)

RECURSIVE FormatNat(_)
FormatNat(n) ==
    IF n < 10 THEN <<DigitChars[n + 1]>> ELSE FormatNat(n \div 10) \o <<DigitChars[(n % 10) + 1]>>

\* a float64 cell prints with its fraction; None and NaN print as na_rep = ""
FormatCell(c) ==
    CASE c.k = "num" -> FormatNat(c.n) \o <<".", "0">>
      [] c.k = "id" -> FormatNat(c.n)
      [] c.k = "str" -> c.s
      [] OTHER -> <<>>

\* csv.QUOTE_MINIMAL: quote a field holding the delimiter, the quote character
\* or a line break, doubling the quotes inside it
NeedsQuote(s, sep) == \E i \in DOMAIN s : s[i] \in {sep, "\"", "\n", "\r"}

QuoteField(s, sep) ==
    IF NeedsQuote(s, sep)
    THEN <<"\"">> \o Flatten([i \in 1..Len(s) |-> IF s[i] = "\"" THEN <<"\"", "\"">> ELSE <<s[i]>>])
         \o <<"\"">>
    ELSE s

\* one written row; a row of one empty field is written as ""
WriteRow(fields, sep) ==
    IF Len(fields) = 1 /\ fields[1] = <<>> THEN <<"\"", "\"", "\n">>
    ELSE Flatten([i \in 1..Len(fields) |->
                    (IF i = 1 THEN <<>> ELSE <<sep>>) \o QuoteField(fields[i], sep)])
         \o <<"\n">>

to_csv(df, sep) ==
    WriteRow([j \in 1..Len(df.columns) |-> ColName(df.columns[j])], sep)
    \o Flatten([i \in 1..Len(df.rows) |->
                  WriteRow([j \in 1..Len(df.columns) |-> FormatCell(df.rows[i][df.columns[j]])],
                           sep)])

----------------------------------------------------------------------------
(* What the framework does with a handler's return value *)

\* a returned str is rendered by the default JSONResponse: json.dumps of it
JsonEncodeStr(s) ==
    <<"\"">>
    \o Flatten([i \in 1..Len(s) |->
                  CASE s[i] = "\"" -> <<"\\", "\"">>
                    [] s[i] = "\\" -> <<"\\", "\\">>
                    [] s[i] = "\n" -> <<"\\", "n">>
                    [] s[i] = "\r" -> <<"\\", "r">>
                    [] OTHER -> <<s[i]>>])
    \o <<"\"">>

\* Sale(**row): every required field must be a key of the row
SaleRaises(df) == ~(SaleFields \subseteq Range(df.columns))

\* the Sale objects of df.to_dict("records"); extra keys are ignored
SaleList(df) == [i \in 1..Len(df.rows) |-> [f \in SaleFields |-> df.rows[i][f]]]

\* JSONResponse renders with allow_nan=False: a NaN in the content raises
JsonRaises(items) == \E i \in DOMAIN items : \E f \in DOMAIN items[i] : items[i][f].k = "nan"

----------------------------------------------------------------------------
(* sales.find({"key": {"$regex": f"{month}-{year}$", "$options": "i"}}) *)

\* the pattern is literal text (month and year have passed validation, so it
\* holds letters, digits and a hyphen) anchored at the end of the key and
\* matched without regard to letter case; nothing anchors its start. The keys
\* of RecordPool hold no line breaks, so $ is the end of the key.
Pattern(month, year) == month \o <<"-">> \o year

RegexMatch(key, pat) ==
    /\ Len(pat) <= Len(key)
    /\ lower(SubSeq(key, Len(key) - Len(pat) + 1, Len(key))) = lower(pat)

find(docs, month, year) == SelectSeq(docs, LAMBDA d : RegexMatch(d["key"], Pattern(month, year)))

----------------------------------------------------------------------------
(* Inputs: request parameters and collection contents *)

S_may == <<"m", "a", "y">>
S_MAY == <<"M", "A", "Y">>
S_May == <<"M", "a", "y">>
S_december == <<"d", "e", "c", "e", "m", "b", "e", "r">>
S_smarch == <<"s", "m", "a", "r", "c", "h">>
S_2022 == <<"2", "0", "2", "2">>
S_2023 == <<"2", "0", "2", "3">>
S_2099 == <<"2", "0", "9", "9">>
K_NDC_DECEMBER_2022 == <<"N", "D", "C", "-", "D", "E", "C", "E", "M", "B", "E", "R", "-", "2", "0", "2", "2">>
K_NDC_MAY_2022 == <<"N", "D", "C", "-", "M", "A", "Y", "-", "2", "0", "2", "2">>
K_ndc_may_2022 == <<"n", "d", "c", "-", "m", "a", "y", "-", "2", "0", "2", "2">>
K_x_May_2023 == <<"x", "-", "M", "a", "y", "-", "2", "0", "2", "3">>
K_DISMAY_2022 == <<"D", "I", "S", "M", "A", "Y", "-", "2", "0", "2", "2">>
K_special == <<"A", "|", ",", "\"", "-", "M", "A", "Y", "-", "2", "0", "2", "2">>
K_NDC_MAY_2022X == <<"N", "D", "C", "-", "M", "A", "Y", "-", "2", "0", "2", "2", "X">>

\* values of the query parameter `format`
FormatPool == {"csv", "json", "CSV", ""}

\* values of the path parameters `month` and `year`
MonthPool == {S_may, S_MAY, S_May, S_december, S_smarch, <<>>}
YearPool == {S_2022, S_2023, S_2099}

Rec(key, sale, rebate, net) == [key |-> key, sale |-> sale, rebate |-> rebate, net |-> net]

\* documents the collection may hold (the service does not write them; key is
\* any str, rebate and net are Optional[float])
RecordPool ==
    { Rec(K_NDC_DECEMBER_2022, 68, Num(0), Num(68)),
      Rec(K_NDC_MAY_2022, 68, Num(5), Num(99)),
      Rec(K_ndc_may_2022, 40, Null, Null),
      Rec(K_x_May_2023, 40, Absent, Absent),
      Rec(K_DISMAY_2022, 68, Num(0), Num(7)),
      Rec(K_special, 12, Num(5), Absent),
      Rec(K_NDC_MAY_2022X, 12, Num(0), Null) }

\* MongoDB gives every document its own _id
WithIds(s) ==
    [i \in 1..Len(s) |->
       [_id |-> i, key |-> s[i].key, sale |-> s[i].sale, rebate |-> s[i].rebate, net |-> s[i].net]]

\* every collection of at most MaxRecords documents, in natural order
Stores == {WithIds(s) : s \in UNION {[1..n -> RecordPool] : n \in 0..MaxRecords}}

\* the collections and parameters of the concurrent specification
ConcStores ==
    { <<>>,
      WithIds(<<Rec(K_NDC_MAY_2022, 68, Num(5), Num(99))>>),
      WithIds(<<Rec(K_NDC_MAY_2022, 68, Num(0), Num(7)), Rec(K_x_May_2023, 40, Num(5), Num(5))>>) }
ConcFormats == {"csv", "json"}
ConcMonths == {S_may, S_MAY, S_smarch}
ConcYears == {S_2022, S_2099}

Requests == 1..NReq

----------------------------------------------------------------------------
(* Responses *)

NoResp ==
    [status |-> 0, detail |-> "", kind |-> "none", body |-> <<>>, items |-> <<>>,
     disposition |-> ""]

\* HTTPException(status_code=404, detail=...)
NotFound(detail) ==
    [status |-> 404, detail |-> detail, kind |-> "error", body |-> <<>>, items |-> <<>>,
     disposition |-> ""]

\* an exception no handler catches: the framework answers 500
InternalError ==
    [status |-> 500, detail |-> "Internal Server Error", kind |-> "error", body |-> <<>>,
     items |-> <<>>, disposition |-> ""]

\* a returned str: a JSON string body, no content-disposition
JsonStrResponse(text) ==
    [status |-> 200, detail |-> "", kind |-> "json_str", body |-> JsonEncodeStr(text),
     items |-> <<>>, disposition |-> ""]

\* a returned list of Sale objects: a JSON array
JsonListResponse(items) ==
    [status |-> 200, detail |-> "", kind |-> "json_list", body |-> <<>>, items |-> items,
     disposition |-> ""]

\* StreamingResponse(iter([text]), media_type="text/csv") with the attachment header
CsvAttachment(text) ==
    [status |-> 200, detail |-> "", kind |-> "text/csv", body |-> text, items |-> <<>>,
     disposition |-> "attachment; filename=export.csv"]

----------------------------------------------------------------------------
(* get_sales, after the cursor has been read *)

get_sales(docs, format) ==
    LET df == DataFrame(docs)
    IN  IF NetRaises(df) THEN InternalError
        ELSE LET dn == WithNet(df)
             IN  IF format = "csv" THEN JsonStrResponse(to_csv(dn, "|"))
                 ELSE IF SaleRaises(dn) THEN InternalError
                 ELSE IF JsonRaises(SaleList(dn)) THEN InternalError
                 ELSE JsonListResponse(SaleList(dn))

----------------------------------------------------------------------------
(* get_sales_for_period *)

ValidationErrorYearFirst(month, year) ==
    IF ~(\E i \in DOMAIN years : years[i] = year) THEN "Year not found"
    ELSE IF ~(\E i \in DOMAIN months : months[i] = lower(month)) THEN "Month not found"
    ELSE ""

\* the two checks, month first; "" when both pass
ValidationError(month, year) ==
    IF ~(\E i \in DOMAIN months : months[i] = lower(month)) THEN "Month not found"
    ELSE IF ~(\E i \in DOMAIN years : years[i] = year) THEN "Year not found"
    ELSE ""

period_df_with_net(docs, month, year) ==
    LET df == DataFrame(find(docs, month, year))
    IN  IF NetRaises(df) THEN df ELSE WithNet(df)

\* df = pd.DataFrame(list(sales.find({...}))): the matching documents as stored
period_df(docs, month, year) == DataFrame(find(docs, month, year))

\* the response once the cursor has been read
get_sales_for_period(docs, month, year) == CsvAttachment(to_csv(period_df(docs, month, year), ","))

----------------------------------------------------------------------------
(* State machine: connections served by one event loop and its thread pool *)

Idle == [phase |-> "idle", ep |-> "none", format |-> "", month |-> <<>>, year |-> <<>>,
         resp |-> NoResp]

SalesRequest(format) ==
    [phase |-> "arrived", ep |-> "sales", format |-> format, month |-> <<>>, year |-> <<>>,
     resp |-> NoResp]

PeriodRequest(month, year) ==
    [phase |-> "arrived", ep |-> "period", format |-> "", month |-> month, year |-> year,
     resp |-> NoResp]

Query(r) == [req |-> r, ep |-> reqs[r].ep, month |-> reqs[r].month, year |-> reqs[r].year]

\* the event loop is running no handler and can take the next ready task
LoopFree == loop = 0

\* a client connects and sends GET /api/sales?format=... or GET /api/sales/{month}/{year};
\* slots fill in order (connections are interchangeable)
Arrive(r, formats, monthsIn, yearsIn) ==
    /\ reqs[r].phase = "idle"
    /\ \A q \in Requests : q < r => reqs[q].phase # "idle"
    /\ \/ \E f \in formats : reqs' = [reqs EXCEPT ![r] = SalesRequest(f)]
       \/ \E m \in monthsIn, y \in yearsIn : reqs' = [reqs EXCEPT ![r] = PeriodRequest(m, y)]
    /\ UNCHANGED <<store, storeUp, loop, queryLog>>

\* async def get_sales runs on the event loop and calls the blocking
\* sales.find() there: the loop is held until the cursor has been read
SalesStart(r) ==
    /\ reqs[r].phase = "arrived" /\ reqs[r].ep = "sales"
    /\ LoopFree
    /\ loop' = r
    /\ queryLog' = queryLog \cup {Query(r)}
    /\ reqs' = [reqs EXCEPT ![r].phase = "querying"]
    /\ UNCHANGED <<store, storeUp>>

\* the query returns (or the driver raises); the handler computes its result,
\* the response is sent and the loop is released
SalesReturn(r, newStore) ==
    /\ reqs[r].phase = "querying" /\ reqs[r].ep = "sales"
    /\ reqs' = [reqs EXCEPT ![r].phase = "done",
                            ![r].resp = IF storeUp THEN get_sales(store, reqs[r].format)
                                        ELSE InternalError]
    /\ loop' = 0
    /\ store' = newStore
    /\ UNCHANGED <<storeUp, queryLog>>

\* the documents with the derived net written back
Persisted(docs) ==
    LET df == DataFrame(docs)
    IN  IF NetRaises(df) THEN docs
        ELSE [i \in 1..Len(docs) |->
                [docs[i] EXCEPT !["net"] =
                   LET c == WithNet(df).rows[i]["net"]
                   IN  IF c.k = "num" THEN Num(c.n) ELSE Null]]

SalesFinishPersist(r) == SalesReturn(r, IF storeUp THEN Persisted(store) ELSE store)

SalesFinish(r) == SalesReturn(r, store)

PeriodStartFetchFirst(r) ==
    /\ reqs[r].phase = "arrived" /\ reqs[r].ep = "period"
    /\ LoopFree
    /\ queryLog' = queryLog \cup {Query(r)}
    /\ reqs' = [reqs EXCEPT ![r].phase = "querying"]
    /\ UNCHANGED <<store, storeUp, loop>>

\* def get_sales_for_period is handed to a worker thread by the event loop;
\* it validates, and only then issues its query
PeriodStart(r) ==
    /\ reqs[r].phase = "arrived" /\ reqs[r].ep = "period"
    /\ LoopFree
    /\ LET err == ValidationError(reqs[r].month, reqs[r].year)
       IN  IF err # ""
           THEN /\ reqs' = [reqs EXCEPT ![r].phase = "returned", ![r].resp = NotFound(err)]
                /\ UNCHANGED queryLog
           ELSE /\ reqs' = [reqs EXCEPT ![r].phase = "querying"]
                /\ queryLog' = queryLog \cup {Query(r)}
    /\ UNCHANGED <<store, storeUp, loop>>

\* the query returns in the worker thread (or the driver raises) and the
\* handler builds its response
PeriodReturn(r, newStore) ==
    /\ reqs[r].phase = "querying" /\ reqs[r].ep = "period"
    /\ reqs' = [reqs EXCEPT ![r].phase = "returned",
                            ![r].resp = IF storeUp
                                        THEN get_sales_for_period(store, reqs[r].month,
                                                                  reqs[r].year)
                                        ELSE InternalError]
    /\ store' = newStore
    /\ UNCHANGED <<storeUp, loop, queryLog>>

PeriodFinishPersist(r) == PeriodReturn(r, IF storeUp THEN Persisted(store) ELSE store)

PeriodFinish(r) == PeriodReturn(r, store)

\* the event loop resumes the awaiting task and sends the worker's response
Respond(r) ==
    /\ reqs[r].phase = "returned"
    /\ LoopFree
    /\ reqs' = [reqs EXCEPT ![r].phase = "done"]
    /\ UNCHANGED <<store, storeUp, loop, queryLog>>

Handle(r) ==
    \/ SalesStart(r)
    \/ SalesFinish(r)
    \/ PeriodStart(r)
    \/ PeriodFinish(r)
    \/ Respond(r)

\* the service under concurrent connections
Init ==
    /\ store \in ConcStores
    /\ storeUp \in BOOLEAN
    /\ reqs = [r \in Requests |-> Idle]
    /\ loop = 0
    /\ queryLog = {}

Next ==
    \E r \in Requests :
        \/ Arrive(r, ConcFormats, ConcMonths, ConcYears)
        \/ Handle(r)

Spec == Init /\ [][Next]_vars

\* one connection against every collection and every parameter value
InitData ==
    /\ store \in Stores
    /\ storeUp \in BOOLEAN
    /\ reqs = [r \in Requests |-> Idle]
    /\ loop = 0
    /\ queryLog = {}

FirstRequest == {r \in Requests : \A q \in Requests : r <= q}

NextData ==
    \E r \in FirstRequest :
        \/ Arrive(r, FormatPool, MonthPool, YearPool)
        \/ Handle(r)

SpecData == InitData /\ [][NextData]_vars

----------------------------------------------------------------------------
(* Reading a response back, as a client does *)

Indexed(t) == [j \in 1..Len(t) |-> [i |-> j, c |-> t[j]]]

\* position j of t within its run of the character ch (1 for the first of a run)
RunIndex(t, j, ch) ==
    LET others == {p \in 1..(j - 1) : t[p] # ch}
    IN  j - (IF others = {} THEN 0 ELSE CHOOSE p \in others : \A q \in others : q <= p)

\* json.loads of a JSON string body: the surrounding quotes dropped, and each
\* backslash escape replaced by the character it stands for
JsonDecodeStr(b) ==
    LET inner == SubSeq(b, 2, Len(b) - 1)
        Opens(j) == inner[j] = "\\" /\ RunIndex(inner, j, "\\") % 2 = 1
        Escaped(j) == j > 1 /\ Opens(j - 1)
        kept == SelectSeq(Indexed(inner), LAMBDA p : ~Opens(p.i))
    IN  [k \in 1..Len(kept) |->
           IF Escaped(kept[k].i)
           THEN (CASE kept[k].c = "n" -> "\n" [] kept[k].c = "r" -> "\r" [] OTHER -> kept[k].c)
           ELSE kept[k].c]

\* position i of t lies outside quotes: an even number of quote characters precede it
Outside(t, i) == Cardinality({j \in 1..(i - 1) : t[j] = "\""}) % 2 = 0

\* the positions of the unquoted occurrences of ch, in order
Cuts(t, ch) ==
    LET hits == SelectSeq(Indexed(t), LAMBDA p : p.c = ch /\ Outside(t, p.i))
    IN  [k \in 1..Len(hits) |-> hits[k].i]

\* the pieces of t between the cut positions
Split(t, cuts) ==
    [k \in 1..(Len(cuts) + 1) |->
       SubSeq(t, (IF k = 1 THEN 1 ELSE cuts[k - 1] + 1),
                 (IF k <= Len(cuts) THEN cuts[k] - 1 ELSE Len(t)))]

\* a quoted field loses its quotes, and each doubled quote inside becomes one
Unquote(f) ==
    IF Len(f) >= 2 /\ f[1] = "\"" /\ f[Len(f)] = "\""
    THEN LET inner == SubSeq(f, 2, Len(f) - 1)
             kept == SelectSeq(Indexed(inner),
                               LAMBDA p : ~(p.c = "\"" /\ RunIndex(inner, p.i, "\"") % 2 = 0))
         IN  [k \in 1..Len(kept) |-> kept[k].c]
    ELSE f

\* a csv reader (quote character ", doubled quotes, records ended by \n): the
\* rows of t, each a sequence of fields; an empty line is a row of no fields
ParseCsv(t, sep) ==
    LET lines == Split(t, Cuts(t, "\n"))
        n == IF lines[Len(lines)] = <<>> THEN Len(lines) - 1 ELSE Len(lines)
    IN  [k \in 1..n |->
           IF lines[k] = <<>> THEN <<>>
           ELSE LET fs == Split(lines[k], Cuts(lines[k], sep))
                IN  [j \in 1..Len(fs) |-> Unquote(fs[j])]]

HasField(header, name) == \E j \in DOMAIN header : header[j] = name

\* the field of `row` under the header label `name`
FieldOf(row, header, name) == row[CHOOSE j \in DOMAIN header : header[j] = name]

\* the request has its response (sent, or waiting for the loop to send it)
Answered(r) == reqs[r].phase \in {"returned", "done"}

\* what the sale/rebate rule of the all-sales operation gives for a document
RuleNet(d) ==
    IF d["rebate"].k \in {"absent", "null"} \/ d["rebate"].n = 0 THEN d["sale"] ELSE d["rebate"].n

----------------------------------------------------------------------------
(* Properties *)

FormatFloat(n) == FormatNat(n) \o <<".", "0">>

\* the rows of a successful all-sales response in csv format, as a client reads them
SalesCsvRows(r) == ParseCsv(JsonDecodeStr(reqs[r].resp.body), "|")

\* C1: in every successful answer of the all-sales operation each emitted
\* record's net is its sale when its rebate is absent, null or zero, and its
\* rebate otherwise, whatever net the document stores.
C1_NetIsSaleOrRebate ==
    \A r \in Requests :
        (Answered(r) /\ reqs[r].ep = "sales" /\ reqs[r].resp.status = 200) =>
            IF reqs[r].resp.kind = "json_list"
            THEN /\ Len(reqs[r].resp.items) = Len(store)
                 /\ \A i \in DOMAIN store :
                        reqs[r].resp.items[i]["net"] = NumCell(RuleNet(store[i]))
            ELSE LET rows == SalesCsvRows(r)
                 IN  /\ Len(rows) = Len(store) + 1
                     /\ HasField(rows[1], N_net)
                     /\ \A i \in DOMAIN store :
                            FieldOf(rows[i + 1], rows[1], N_net) = FormatFloat(RuleNet(store[i]))

\* the key ends with -{month}-{year}, letter case ignored
EndsWithHyphenated(key, month, year) ==
    LET suffix == <<"-">> \o month \o <<"-">> \o year
    IN  /\ Len(suffix) <= Len(key)
        /\ lower(SubSeq(key, Len(key) - Len(suffix) + 1, Len(key))) = lower(suffix)

\* the _id values of the records of a period response
ReturnedIds(r) ==
    LET rows == ParseCsv(reqs[r].resp.body, ",")
    IN  IF Len(rows) < 2 THEN {}
        ELSE {FieldOf(rows[i], rows[1], N_id) : i \in 2..Len(rows)}

\* C2: a successful period response holds exactly the documents whose key
\* ends with -{month}-{year}, letter case ignored.
C2_ExactlyHyphenatedSuffix ==
    \A r \in Requests :
        (Answered(r) /\ reqs[r].ep = "period" /\ reqs[r].resp.status = 200) =>
            ReturnedIds(r) =
                {FormatNat(store[i]["_id"]) :
                    i \in {j \in DOMAIN store :
                             EndsWithHyphenated(store[j]["key"], reqs[r].month, reqs[r].year)}}

BadMonth(r) == lower(reqs[r].month) \notin Range(months)
BadYear(r) == reqs[r].year \notin {S_2022, S_2023}

\* C3: the period operation answers 404 "Month not found" exactly when the
\* lowercased month is no month name, 404 "Year not found" exactly when the
\* month is valid and the year is neither 2022 nor 2023, and no 404 otherwise.
C3_ValidationOrder ==
    \A r \in Requests :
        (Answered(r) /\ reqs[r].ep = "period") =>
            /\ (reqs[r].resp = NotFound("Month not found")) <=> BadMonth(r)
            /\ (reqs[r].resp = NotFound("Year not found")) <=> (~BadMonth(r) /\ BadYear(r))
            /\ (~BadMonth(r) /\ ~BadYear(r)) => reqs[r].resp.status # 404

\* a request with an invalid month and an invalid year has been answered
C3_Witness ==
    \E r \in Requests :
        /\ Answered(r) /\ reqs[r].ep = "period"
        /\ BadMonth(r) /\ BadYear(r)
        /\ reqs[r].resp.detail = "Month not found"

\* the field names of the documents of the collection, and the derived net
StoreFieldNames == {ColName(f) : f \in UNION {Range(DocFields(store[i])) : i \in DOMAIN store}}

\* C4: with format "csv" the body, read as |-delimited text, is a header row
\* and one row per document with the documents' fields, and the response
\* carries no content-disposition.
C4_CsvRoundTrip ==
    \A r \in Requests :
        (Answered(r) /\ reqs[r].ep = "sales" /\ reqs[r].format = "csv" /\ storeUp) =>
            /\ reqs[r].resp.status = 200
            /\ reqs[r].resp.disposition = ""
            /\ LET rows == ParseCsv(reqs[r].resp.body, "|")
               IN  /\ Len(rows) = Len(store) + 1
                   /\ Range(rows[1]) = StoreFieldNames \cup {N_net}
                   /\ \A i \in 2..Len(rows) : Len(rows[i]) = Len(rows[1])

\* C5: with any other format the response is a list of one Sale object per
\* document, each with all Sale fields.
C5_JsonOnePerRecord ==
    \A r \in Requests :
        (Answered(r) /\ reqs[r].ep = "sales" /\ reqs[r].format # "csv" /\ storeUp) =>
            /\ reqs[r].resp.status = 200
            /\ reqs[r].resp.kind = "json_list"
            /\ Len(reqs[r].resp.items) = Len(store)
            /\ \A i \in DOMAIN reqs[r].resp.items : DOMAIN reqs[r].resp.items[i] = SaleFields

\* the text of a stored Optional[float]
StoredText(v) == IF v.k = "num" THEN FormatFloat(v.n) ELSE <<>>

\* C6: every record of a successful period response carries the stored values:
\* its net is the stored net (empty when the document has none), not the
\* value of the sale/rebate rule.
C6_PeriodKeepsStoredNet ==
    \A r \in Requests :
        (Answered(r) /\ reqs[r].ep = "period" /\ reqs[r].resp.status = 200) =>
            LET rows == ParseCsv(reqs[r].resp.body, ",")
            IN  \A i \in 2..Len(rows) :
                    \E j \in DOMAIN store :
                        /\ FieldOf(rows[i], rows[1], N_id) = FormatNat(store[j]["_id"])
                        /\ FieldOf(rows[i], rows[1], N_key) = store[j]["key"]
                        /\ FieldOf(rows[i], rows[1], N_sale) = FormatFloat(store[j]["sale"])
                        /\ IF HasField(rows[1], N_net)
                           THEN FieldOf(rows[i], rows[1], N_net) = StoredText(store[j]["net"])
                           ELSE store[j]["net"].k = "absent"
                        /\ IF HasField(rows[1], N_rebate)
                           THEN FieldOf(rows[i], rows[1], N_rebate)
                                    = StoredText(store[j]["rebate"])
                           ELSE store[j]["rebate"].k = "absent"

\* a period response holds a record whose stored net is not the rule's value
C6_Witness ==
    \E r \in Requests :
        /\ Answered(r) /\ reqs[r].ep = "period" /\ reqs[r].resp.status = 200
        /\ LET rows == ParseCsv(reqs[r].resp.body, ",")
           IN  \E i \in 2..Len(rows) : \E j \in DOMAIN store :
                   /\ FieldOf(rows[i], rows[1], N_id) = FormatNat(store[j]["_id"])
                   /\ store[j]["net"].k = "num"
                   /\ store[j]["net"].n # RuleNet(store[j])
                   /\ FieldOf(rows[i], rows[1], N_net) = FormatFloat(store[j]["net"].n)

\* C7: while a request waits on its store query, every other request that has
\* arrived can be taken up, and every other request whose response is ready
\* can be completed.
C7_NoOperationBlocksAnother ==
    \A r1 \in Requests, r2 \in Requests :
        (r1 # r2 /\ reqs[r1].phase = "querying") =>
            /\ reqs[r2].phase = "arrived" => ENABLED (SalesStart(r2) \/ PeriodStart(r2))
            /\ reqs[r2].phase = "returned" => ENABLED Respond(r2)

SameRequest(r1, r2) ==
    /\ reqs[r1].ep = reqs[r2].ep
    /\ reqs[r1].format = reqs[r2].format
    /\ reqs[r1].month = reqs[r2].month
    /\ reqs[r1].year = reqs[r2].year

C9_ReadOnly == [][store' = store]_vars

\* an all-sales request has succeeded on a document whose stored net is not
\* the derived one
C9_Witness ==
    \E r \in Requests :
        /\ reqs[r].ep = "sales" /\ reqs[r].phase = "done" /\ reqs[r].resp.status = 200
        /\ \E i \in DOMAIN store :
               store[i]["net"].k = "num" /\ store[i]["net"].n # RuleNet(store[i])

\* C10: a period request answered 404 has issued no query; every rejected
\* request is answered 404 whether or not the store is available; and every
\* query of the period operation carries a month name and a supported year.
C10_ValidationBeforeFetch ==
    /\ \A r \in Requests :
           (Answered(r) /\ reqs[r].ep = "period") =>
               /\ reqs[r].resp.status = 404 => \A q \in queryLog : q.req # r
               /\ (BadMonth(r) \/ BadYear(r)) => reqs[r].resp.status = 404
    /\ \A q \in queryLog :
           q.ep = "period" => lower(q.month) \in Range(months) /\ q.year \in {S_2022, S_2023}

\* with the store unavailable, one period request was rejected and another
\* issued its query
C10_Witness ==
    /\ ~storeUp
    /\ \E r \in Requests :
           reqs[r].ep = "period" /\ reqs[r].phase = "done" /\ reqs[r].resp.status = 404
    /\ \E q \in queryLog : q.ep = "period"

====
